---- MODULE Spec2Model ----
(***************************************************************************)
(* Model of the rate-limited load engine of mail_stress_test               *)
(* (benchmark.StressTest: Run, worker, selectOperation,                    *)
(* updateOperationStats), followed by the parts that are exercised on      *)
(* their own: selectOperation (SelectSpec), the request generator          *)
(* (GenSpec), calculatePercentile (PercentileSpec), benchmarkStrategy      *)
(* (BenchSpec), SearchBenchmark.Run with GenerateComparisonReport          *)
(* (SuiteSpec), the MonitoringManager (MonitoringSpec) and                 *)
(* DBHandler.CreateMail (CreateMailSpec).                                   *)
(*                                                                         *)
(* Time.  The model clock `now` counts ticker intervals since startTime:   *)
(* the ticker created by Run fires at now = 1, 2, 3, ... and endTime is    *)
(* the configured Duration expressed in the same unit.  Durations measured *)
(* by time.Since(start) are nanosecond quantities and are drawn from the   *)
(* gateway's latency set, independently of the coarse clock.               *)
(*                                                                         *)
(* Shared memory.  atomic.AddInt64 is one indivisible step.  The plain     *)
(* `if d < x { x = d }` updates of the min/max fields are two steps, the   *)
(* read-and-compare and the store, which other workers may interleave.     *)
(***************************************************************************)
EXTENDS Integers, Sequences, FiniteSets, TLC

\* ---------------------------------------------------------------- bounds
NumWorkers == 2
MaxDur == 2
MaxDuration == 2
MaxWeight == 2
MaxUsers == 3
MaxIter == 4
NumStrategies == 2
MaxSuiteIter == 2
MaxScrapes == 2

\* The clock saturates one interval after the longest deadline.
MaxTime == MaxDuration + 1

\* rand.Intn(3) + 1: the largest number of recipients drawn for a request.
MaxRecipients == 3

\* time.Hour, the sentinel of the min fields, in the unit of the durations:
\* longer than any latency the handler shows.
Hour == 4

Workers == 1..NumWorkers
Kinds == {"create", "list", "search"}

\* ------------------------------------------------------------ environment
\* The runs the model covers: the configured operation weights
\* (config.OperationWeights) and request rate together with the behaviour of
\* the injected MailHandler, given by the errors it may return and the
\* latencies it may show.  The clock counts ticker intervals, so every
\* positive request rate is the rate 1 of the model.
Scenarios ==
    { \* a handler that may fail
      [Operations |-> [CreateMailWeight |-> 1, ListMailWeight |-> 0,
                       SearchWeight |-> 0],
       RequestRate |-> 1,
       gateway |-> [errs |-> {FALSE, TRUE}, durs |-> {1}]],
      \* a handler that answers either at once or after the longest latency
      [Operations |-> [CreateMailWeight |-> 0, ListMailWeight |-> 0,
                       SearchWeight |-> 1],
       RequestRate |-> 1,
       gateway |-> [errs |-> {FALSE}, durs |-> {1, MaxDur}]],
      \* a handler that always succeeds in constant time, two operation
      \* kinds in the mix
      [Operations |-> [CreateMailWeight |-> 0, ListMailWeight |-> 1,
                       SearchWeight |-> 1],
       RequestRate |-> 1,
       gateway |-> [errs |-> {FALSE}, durs |-> {1}]],
      \* a configuration whose operation weights are all zero
      [Operations |-> [CreateMailWeight |-> 0, ListMailWeight |-> 0,
                       SearchWeight |-> 0],
       RequestRate |-> 1,
       gateway |-> [errs |-> {FALSE}, durs |-> {1}]],
      \* a configuration whose request rate is zero
      [Operations |-> [CreateMailWeight |-> 0, ListMailWeight |-> 1,
                       SearchWeight |-> 0],
       RequestRate |-> 0,
       gateway |-> [errs |-> {FALSE}, durs |-> {1}]] }

\* The runs followed to their end under fairness: one operation kind and a
\* handler that always succeeds in constant time.  (The outcome of a call
\* has no influence on where the worker continues, see AfterCall.)
LiveScenarios ==
    { [Operations |-> [CreateMailWeight |-> 0, ListMailWeight |-> 1,
                       SearchWeight |-> 0],
       RequestRate |-> 1,
       gateway |-> [errs |-> {FALSE}, durs |-> {1}]] }

VARIABLES
    config,         \* st.config.StressTest: Duration, ConcurrentWorkers,
                    \* RequestRate, Operations
    gateway,        \* behaviour of st.handler during this run
    now,            \* time.Now(), in ticker intervals since startTime
    tick,           \* rateLimiter.C holds a tick (channel of capacity 1)
    cancelled,      \* ctx.Done() is closed
    result,         \* *StressTestResult shared by all workers
    totalDuration,  \* var totalDuration int64 of Run
    pc,             \* position of each worker goroutine
    operation,      \* worker local: operation
    duration,       \* worker local: duration
    runPc,          \* position of Run: "wait" (wg.Wait), "returned",
                    \* "panicked" (in the final computation) or "crashed"
                    \* (the process died of a panic raised before it)
    retErr,         \* error returned by Run ("none" until it returns)
    divisors,       \* denominators of the divisions Run has evaluated
    trace,          \* durations measured so far, per operation kind
    started,        \* number of executeOperation calls made so far
    failed,         \* number of those calls that returned an error
    recorded,       \* sum of the durations measured so far, per kind
    late,           \* per worker: operations started after the deadline,
                    \* in the behaviours that count them
    sel,            \* one call of selectOperation: weights, draw, result
    gen,            \* one call of DataGenerator.GenerateCreateMailRequest
    pct,            \* calls of calculatePercentile on one sample
    bench,          \* one call of SearchBenchmark.benchmarkStrategy
    suite,          \* one call of SearchBenchmark.Run, then the reports
    mon,            \* MonitoringManager: StartMonitoring .. StopMonitoring
    dbh             \* one call of DBHandler.CreateMail, with the collections

vars == <<config, gateway, now, tick, cancelled, result, totalDuration, pc,
          operation, duration, runPc, retErr, divisors, trace, started,
          failed, recorded, late, sel, gen, pct, bench, suite, mon,
          dbh>>

\* The state of the load engine (StressTest).
engineVars == <<config, gateway, now, tick, cancelled, result, totalDuration,
                pc, operation, duration, runPc, retErr, divisors, trace,
                started, failed, recorded, late>>

\* The state of the parts of the program that a stress run does not touch.
components == <<sel, gen, pct, bench, suite, mon, dbh>>

\* A part of the program that is not exercised in the behaviours at hand.
Idle == [pc |-> "idle"]

\* The value of late in the behaviours that do not count late starts.
NotCounted == [w \in Workers |-> -1]

observed == <<trace, started, failed, recorded, late>>

envVars == <<config, gateway>>
locals == <<operation, duration>>

\* ----------------------------------------------------------------- helpers
Min2(a, b) == IF a < b THEN a ELSE b
Max2(a, b) == IF a > b THEN a ELSE b

RECURSIVE SetMin(_)
SetMin(S) == LET x == CHOOSE y \in S : TRUE
             IN IF S = {x} THEN x ELSE Min2(x, SetMin(S \ {x}))

RECURSIVE SetMax(_)
SetMax(S) == LET x == CHOOSE y \in S : TRUE
             IN IF S = {x} THEN x ELSE Max2(x, SetMax(S \ {x}))

endTime == config.Duration

Pool == 1..config.ConcurrentWorkers

\* ---------------------------------------------------------- selectOperation
\* Faulty variant of selectOperation: the ranges are closed on the right, so
\* the draw 0 selects create even when its weight is 0.
selectOperationInclusive(weights, r) ==
    IF r <= weights.CreateMailWeight THEN "create"
    ELSE IF r <= weights.CreateMailWeight + weights.ListMailWeight THEN "list"
    ELSE "search"

\* The mapping of the drawn integer r to an operation kind.
selectOperation(weights, r) ==
    IF r < weights.CreateMailWeight THEN "create"
    ELSE IF r < weights.CreateMailWeight + weights.ListMailWeight THEN "list"
    ELSE "search"

TotalWeight(weights) ==
    weights.CreateMailWeight + weights.ListMailWeight + weights.SearchWeight

\* -------------------------------------------------------------------- Init
NewOperationStats ==
    [Count |-> 0, AvgDuration |-> 0, MinDuration |-> Hour,
     MaxDuration |-> 0, Errors |-> 0]

NewResult ==
    [TotalRequests |-> 0, SuccessRequests |-> 0, FailedRequests |-> 0,
     TotalDuration |-> 0, AvgResponseTime |-> 0,
     MinResponseTime |-> Hour, MaxResponseTime |-> 0,
     RequestsPerSecond |-> [num |-> 0, den |-> 1],
     ErrorRate |-> [num |-> 0, den |-> 1],
     OperationStats |-> [k \in Kinds |-> NewOperationStats]]

\* NewStressTest stores the configuration it is given: no field is looked at
\* and there is no error to return.
NewStressTest(cfg) == cfg

\* time.NewTicker(time.Second / time.Duration(RequestRate)): the integer
\* division panics when the rate is zero, before any worker is launched.
TickerPanics(cfg) == cfg.RequestRate = 0

\* The state in which Run has built the result, computed endTime, created
\* the ticker and launched the worker goroutines, for a run of one of the
\* given scenarios; or the state in which Run has died creating the ticker.
InitIn(scenarios) ==
    /\ \E sc \in scenarios :
          /\ config \in { NewStressTest(cfg) :
                             cfg \in [Duration : 0..MaxDuration,
                                      ConcurrentWorkers : 0..NumWorkers,
                                      RequestRate : {sc.RequestRate},
                                      Operations : {sc.Operations}] }
          /\ gateway = sc.gateway
    /\ now = 0
    /\ tick = FALSE
    /\ cancelled = FALSE
    /\ result = NewResult
    /\ totalDuration = 0
    /\ pc = [w \in Workers |-> IF w \in Pool /\ ~TickerPanics(config)
                                THEN "loop" ELSE "unused"]
    /\ operation = [w \in Workers |-> "none"]
    /\ duration = [w \in Workers |-> 0]
    /\ runPc = IF TickerPanics(config) THEN "crashed" ELSE "wait"
    /\ retErr = "none"
    /\ divisors = {}
    /\ trace = [k \in Kinds |-> {}]
    /\ started = 0
    /\ failed = 0
    /\ recorded = [k \in Kinds |-> 0]
    /\ sel = Idle
    /\ gen = Idle
    /\ pct = Idle
    /\ bench = Idle
    /\ suite = Idle
    /\ mon = Idle
    /\ dbh = Idle

Init == InitIn(Scenarios) /\ late = NotCounted

InitLive == InitIn(LiveScenarios) /\ late = NotCounted

\* The same runs, with the operations started after the deadline counted
\* for each worker.
InitLate == InitIn(LiveScenarios) /\ late = [w \in Workers |-> 0]

\* ------------------------------------------------------------- environment
\* The ticker fires: one interval passes and a tick is sent on rateLimiter.C.
\* A worker blocked in the select receives it directly (Go wakes the longest
\* waiting one; the model lets any of them be woken); otherwise the tick is
\* buffered, or dropped when the channel still holds the previous one.  Once
\* the clock is saturated a dropped tick changes nothing and is left out.
Tick ==
    /\ runPc = "wait"
    /\ now < MaxTime \/ ~tick
    /\ now' = Min2(now + 1, MaxTime)
    /\ IF \E w \in Workers : pc[w] = "parked"
       THEN /\ \E w \in Workers :
                  /\ pc[w] = "parked"
                  /\ pc' = [pc EXCEPT ![w] = "ticked"]
            /\ UNCHANGED tick
       ELSE /\ tick' = TRUE
            /\ UNCHANGED pc
    /\ UNCHANGED <<components, envVars, cancelled, result, totalDuration, locals,
                   runPc, retErr, divisors, observed>>

\* Faulty variant of WakeOnDone: a select without the case <-ctx.Done(), which
\* leaves a blocked worker waiting for the next tick.
WakeOnDoneNoCase(p) == p

\* What closing ctx.Done() does to a worker at position p: a worker blocked in
\* the select is woken on the case <-ctx.Done() and returns.
WakeOnDone(p) == IF p = "parked" THEN "done" ELSE p

\* The caller cancels the context handed to Run.
Cancel ==
    /\ runPc = "wait"
    /\ ~cancelled
    /\ cancelled' = TRUE
    /\ pc' = [w \in Workers |-> WakeOnDone(pc[w])]
    /\ UNCHANGED <<components, envVars, now, tick, result, totalDuration, locals,
                   runPc, retErr, divisors, observed>>

\* ------------------------------------------------------------------ worker
Goto(w, l) == pc' = [pc EXCEPT ![w] = l]

\* Faulty variant of Before: the loop of the worker has no deadline.
BeforeForever(t, u) == TRUE

\* time.Now().Before(endTime), with t the current time and u the deadline
Before(t, u) == t < u

\* for time.Now().Before(endTime)
workerLoop(w) ==
    /\ pc[w] = "loop"
    /\ Goto(w, IF Before(now, endTime) THEN "select" ELSE "done")
    /\ UNCHANGED <<components, envVars, now, tick, cancelled, result, totalDuration,
                   locals, runPc, retErr, divisors, observed>>

\* The cases of the select that can proceed when the worker reaches it, given
\* whether ctx.Done() is closed (c) and whether rateLimiter.C holds a tick (t).
\* Go chooses among several ready cases at random.
ReadyCases(c, t) ==
    (IF c THEN {"done"} ELSE {}) \cup (IF t THEN {"tick"} ELSE {})

\* select: case <-ctx.Done(): return
workerCancelled(w) ==
    /\ pc[w] = "select"
    /\ "done" \in ReadyCases(cancelled, tick)
    /\ Goto(w, "done")
    /\ UNCHANGED <<components, envVars, now, tick, cancelled, result, totalDuration,
                   locals, runPc, retErr, divisors, observed>>

\* Faulty variant of Received: the receive leaves the tick in the channel,
\* where the next worker finds it again.
ReceivedPeek(t) == t

\* What rateLimiter.C holds once a worker has received from it: the channel
\* has capacity 1 and the receive takes the tick out.
Received(t) == FALSE

\* select: case <-rateLimiter.C, with a tick waiting in the channel
workerReceive(w) ==
    /\ pc[w] = "select"
    /\ "tick" \in ReadyCases(cancelled, tick)
    /\ tick' = Received(tick)
    /\ Goto(w, "ticked")
    /\ UNCHANGED <<components, envVars, now, cancelled, result, totalDuration,
                   locals, runPc, retErr, divisors, observed>>

\* select: no case is ready, the worker blocks on both channels
workerPark(w) ==
    /\ pc[w] = "select"
    /\ ReadyCases(cancelled, tick) = {}
    /\ Goto(w, "parked")
    /\ UNCHANGED <<components, envVars, now, tick, cancelled, result, totalDuration,
                   locals, runPc, retErr, divisors, observed>>

\* rand.Intn(n) panics when n <= 0.
IntnPanics(n) == n <= 0

\* A panic in a goroutine ends the process: Run and every worker stop where
\* they are.
Crash ==
    /\ runPc' = "crashed"
    /\ pc' = [v \in Workers |-> IF pc[v] = "unused" THEN "unused"
                                ELSE "crashed"]

\* Body of case <-rateLimiter.C: the operation is selected, start is taken
\* and executeOperation is called.  selectOperation draws r with
\* rand.Intn(total).
workerTick(w) ==
    /\ pc[w] = "ticked"
    /\ IF IntnPanics(TotalWeight(config.Operations))
       THEN /\ Crash
            /\ UNCHANGED <<operation, started, late>>
       ELSE /\ \E r \in 0..(TotalWeight(config.Operations) - 1) :
                  operation' = [operation EXCEPT
                                   ![w] = selectOperation(config.Operations, r)]
            /\ started' = started + 1
            /\ late' = IF late # NotCounted /\ now >= endTime
                       THEN [late EXCEPT ![w] = @ + 1] ELSE late
            /\ Goto(w, "exec")
            /\ UNCHANGED runPc
    /\ UNCHANGED <<components, envVars, now, tick, cancelled, result, totalDuration,
                   duration, retErr, divisors, trace, failed, recorded>>

\* Faulty variant of CountRequest: SuccessRequests is incremented before the
\* error is looked at, so a failed call is counted on both sides.
CountRequestBothSides(res, e) ==
    [res EXCEPT !.TotalRequests = @ + 1,
                !.FailedRequests = IF e THEN @ + 1 ELSE @,
                !.SuccessRequests = @ + 1]

\* Faulty variant of CountRequest: a failed call is left out of the counters.
CountRequestSuccessOnly(res, e) ==
    IF e THEN res
    ELSE [res EXCEPT !.TotalRequests = @ + 1, !.SuccessRequests = @ + 1]

\* atomic.AddInt64 on TotalRequests and then on FailedRequests or
\* SuccessRequests, as the worker does after the call returned.
CountRequest(res, e) ==
    [res EXCEPT !.TotalRequests = @ + 1,
                !.FailedRequests = IF e THEN @ + 1 ELSE @,
                !.SuccessRequests = IF e THEN @ ELSE @ + 1]

\* Faulty variant of AddOperationStats: a failed call only adds to Errors.
AddOperationStatsErrorOnly(stats, d, isError) ==
    IF isError
    THEN [stats EXCEPT !.Errors = @ + 1]
    ELSE [stats EXCEPT !.Count = @ + 1, !.AvgDuration = @ + d]

\* Faulty variant of AddOperationStats: isError is not looked at.
AddOperationStatsNoErrors(stats, d, isError) ==
    [stats EXCEPT !.Count = @ + 1, !.AvgDuration = @ + d]

\* The atomic additions at the head of updateOperationStats.
AddOperationStats(stats, d, isError) ==
    [stats EXCEPT !.Count = @ + 1,
                  !.AvgDuration = @ + d,
                  !.Errors = IF isError THEN @ + 1 ELSE @]

\* Faulty variant of AfterCall: the worker returns when the call failed.
AfterCallReturnOnError(e) == IF e THEN "done" ELSE "opMin"

\* Where the worker continues when executeOperation has returned: in the
\* statistics code of the same iteration, for both outcomes of the call.
AfterCall(e) == "opMin"

\* executeOperation returns with an error or not, duration := time.Since(start)
\* is measured, and the worker and updateOperationStats perform their atomic
\* additions.  The additions commute with every step of the other workers and
\* nothing reads the counters before wg.Wait() has returned, so they are taken
\* together with the return of the call.
executeOperation(w) ==
    /\ pc[w] = "exec"
    /\ \E e \in gateway.errs, d \in gateway.durs :
          /\ duration' = [duration EXCEPT ![w] = d]
          /\ trace' = [trace EXCEPT ![operation[w]] = @ \cup {d}]
          /\ recorded' = [recorded EXCEPT ![operation[w]] = @ + d]
          /\ totalDuration' = totalDuration + d
          /\ result' = [CountRequest(result, e) EXCEPT
                           !.OperationStats[operation[w]] =
                               AddOperationStats(@, d, e)]
          /\ failed' = IF e THEN failed + 1 ELSE failed
          /\ Goto(w, AfterCall(e))
    /\ UNCHANGED <<components, envVars, now, tick, cancelled, operation, runPc, retErr,
                   divisors, started, late>>

\* ---------------------------------------------------- updateOperationStats
\* if duration < stats.MinDuration  (unsynchronised read)
opMinRead(w) ==
    /\ pc[w] = "opMin"
    /\ Goto(w, IF duration[w] < result.OperationStats[operation[w]].MinDuration
               THEN "opMinW" ELSE "opMax")
    /\ UNCHANGED <<components, envVars, now, tick, cancelled, result, totalDuration,
                   locals, runPc, retErr, divisors, observed>>

\* stats.MinDuration = duration  (unsynchronised write)
opMinWrite(w) ==
    /\ pc[w] = "opMinW"
    /\ result' = [result EXCEPT
                     !.OperationStats[operation[w]].MinDuration = duration[w]]
    /\ Goto(w, "opMax")
    /\ UNCHANGED <<components, envVars, now, tick, cancelled, totalDuration, locals,
                   runPc, retErr, divisors, observed>>

\* if duration > stats.MaxDuration  (unsynchronised read)
opMaxRead(w) ==
    /\ pc[w] = "opMax"
    /\ Goto(w, IF duration[w] > result.OperationStats[operation[w]].MaxDuration
               THEN "opMaxW" ELSE "min")
    /\ UNCHANGED <<components, envVars, now, tick, cancelled, result, totalDuration,
                   locals, runPc, retErr, divisors, observed>>

\* stats.MaxDuration = duration  (unsynchronised write)
opMaxWrite(w) ==
    /\ pc[w] = "opMaxW"
    /\ result' = [result EXCEPT
                     !.OperationStats[operation[w]].MaxDuration = duration[w]]
    /\ Goto(w, "min")
    /\ UNCHANGED <<components, envVars, now, tick, cancelled, totalDuration, locals,
                   runPc, retErr, divisors, observed>>

\* ------------------------------------------------- worker: overall min/max
\* if duration < result.MinResponseTime  (unsynchronised read)
minRead(w) ==
    /\ pc[w] = "min"
    /\ Goto(w, IF duration[w] < result.MinResponseTime THEN "minW" ELSE "max")
    /\ UNCHANGED <<components, envVars, now, tick, cancelled, result, totalDuration,
                   locals, runPc, retErr, divisors, observed>>

\* result.MinResponseTime = duration  (unsynchronised write)
minWrite(w) ==
    /\ pc[w] = "minW"
    /\ result' = [result EXCEPT !.MinResponseTime = duration[w]]
    /\ Goto(w, "max")
    /\ UNCHANGED <<components, envVars, now, tick, cancelled, totalDuration, locals,
                   runPc, retErr, divisors, observed>>

\* The locals of the case block go out of scope at the end of the iteration.
EndIteration(w) ==
    /\ Goto(w, "loop")
    /\ operation' = [operation EXCEPT ![w] = "none"]
    /\ duration' = [duration EXCEPT ![w] = 0]

\* if duration > result.MaxResponseTime  (unsynchronised read)
maxRead(w) ==
    /\ pc[w] = "max"
    /\ IF duration[w] > result.MaxResponseTime
       THEN Goto(w, "maxW") /\ UNCHANGED locals
       ELSE EndIteration(w)
    /\ UNCHANGED <<components, envVars, now, tick, cancelled, result, totalDuration,
                   runPc, retErr, divisors, observed>>

\* result.MaxResponseTime = duration  (unsynchronised write)
maxWrite(w) ==
    /\ pc[w] = "maxW"
    /\ result' = [result EXCEPT !.MaxResponseTime = duration[w]]
    /\ EndIteration(w)
    /\ UNCHANGED <<components, envVars, now, tick, cancelled, totalDuration, runPc,
                   retErr, divisors, observed>>

\* --------------------------------------------------------------------- Run
\* Faulty variant of HasRequests: the guard lets a run without requests in.
HasRequestsOrNone(n) == n >= 0

\* if result.TotalRequests > 0
HasRequests(n) == n > 0

\* if stats.Count > 0
HasCount(n) == n > 0

\* Integer quotient of non-negative int64 values; a zero divisor makes the Go
\* program panic, which Run below turns into the state "panicked".
Quot(a, b) == IF b = 0 THEN 0 ELSE a \div b

\* Denominators of the divisions that the final computation evaluates.
IntDivisors(res) ==
    (IF HasRequests(res.TotalRequests) THEN {res.TotalRequests} ELSE {})
    \cup { res.OperationStats[k].Count :
              k \in { j \in Kinds : HasCount(res.OperationStats[j].Count) } }

FloatDivisors(res, elapsed) ==
    IF HasRequests(res.TotalRequests)
    THEN {elapsed, res.TotalRequests} ELSE {}

\* Faulty variant of OperationAverage: the total of a kind is divided by
\* the number of all requests.
OperationAverageOverTotal(stats, res) ==
    Quot(stats.AvgDuration, res.TotalRequests)

\* stats.AvgDuration = time.Duration(int64(stats.AvgDuration) / stats.Count),
\* AvgDuration holding the total accumulated by updateOperationStats.
OperationAverage(stats, res) == Quot(stats.AvgDuration, stats.Count)

\* "Calculate final stats" and "Calculate operation stats".
FinalStats(res, td, elapsed) ==
    LET agg == IF HasRequests(res.TotalRequests)
               THEN [res EXCEPT
                       !.TotalDuration = elapsed,
                       !.AvgResponseTime = Quot(td, res.TotalRequests),
                       !.RequestsPerSecond =
                           [num |-> res.TotalRequests, den |-> elapsed],
                       !.ErrorRate =
                           [num |-> res.FailedRequests * 100,
                            den |-> res.TotalRequests]]
               ELSE [res EXCEPT !.TotalDuration = elapsed]
    IN [agg EXCEPT !.OperationStats =
           [k \in Kinds |->
               IF HasCount(res.OperationStats[k].Count)
               THEN [res.OperationStats[k] EXCEPT
                       !.AvgDuration =
                           OperationAverage(res.OperationStats[k], res)]
               ELSE res.OperationStats[k]]]

\* Faulty variant of RunError: a cancelled context is reported as an error.
RunErrorOnCancel(c) == IF c THEN "context canceled" ELSE "nil"

\* The error Run returns next to the result.
RunError(c) == "nil"

\* Faulty variant of WaitReturns: Run goes on without waiting for the workers.
WaitSkipped(p) == TRUE

\* wg.Wait() returns: every goroutine of the pool has called wg.Done(), that
\* is, every worker has left its loop.
WaitReturns(p) == \A w \in Pool : p[w] = "done"

\* wg.Wait() returns when every worker has left its loop; Run then computes
\* the derived aggregates, stops the ticker and returns.
Run ==
    /\ runPc = "wait"
    /\ WaitReturns(pc)
    /\ divisors' = IntDivisors(result) \cup FloatDivisors(result, now)
    /\ IF 0 \in IntDivisors(result)
       THEN /\ runPc' = "panicked"
            /\ UNCHANGED <<result, retErr>>
       ELSE /\ runPc' = "returned"
            /\ result' = FinalStats(result, totalDuration, now)
            /\ retErr' = RunError(cancelled)
    /\ UNCHANGED <<components, envVars, now, tick, cancelled, totalDuration, pc, locals,
                   observed>>

\* ------------------------------------------------------------------- Next
Next ==
    \/ Tick
    \/ Cancel
    \/ Run
    \/ \E w \in Workers :
          \/ workerLoop(w)
          \/ workerCancelled(w)
          \/ workerReceive(w)
          \/ workerPark(w)
          \/ workerTick(w)
          \/ executeOperation(w)
          \/ opMinRead(w)
          \/ opMinWrite(w)
          \/ opMaxRead(w)
          \/ opMaxWrite(w)
          \/ minRead(w)
          \/ minWrite(w)
          \/ maxRead(w)
          \/ maxWrite(w)

Spec == Init /\ [][Next]_vars

LateSpec == InitLate /\ [][Next]_vars

\* Every step of the run itself: all of Next but the caller's cancellation.
Progress ==
    \/ Tick
    \/ Run
    \/ \E w \in Workers :
          \/ workerLoop(w) \/ workerCancelled(w) \/ workerReceive(w)
          \/ workerPark(w) \/ workerTick(w) \/ executeOperation(w)
          \/ opMinRead(w) \/ opMinWrite(w) \/ opMaxRead(w)
          \/ opMaxWrite(w) \/ minRead(w) \/ minWrite(w)
          \/ maxRead(w) \/ maxWrite(w)

\* The run does not stop while one of its steps can be taken: the ticker
\* fires until Run stops it, runnable goroutines are scheduled, gateway calls
\* return and Run continues once wg.Wait() can return.  This asks less than
\* fairness to every goroutine separately; cancellation is left to the caller.
Fairness == WF_vars(Progress)

FairSpec == InitLive /\ [][Next]_vars /\ Fairness

\* ------------------------------------------------------------ observations
Returned == runPc = "returned"

AllDurations == UNION { trace[k] : k \in Kinds }

RECURSIVE SumCount(_, _)
SumCount(res, ks) ==
    IF ks = {} THEN 0
    ELSE LET k == CHOOSE j \in ks : TRUE
         IN res.OperationStats[k].Count + SumCount(res, ks \ {k})

IsZero(q) == q.num = 0 /\ q.den # 0
IsPercent(q, n) == q.den # 0 /\ q.num = n * q.den

\* The gateway always succeeds in constant time.
ConstantGateway == gateway.errs = {FALSE} /\ Cardinality(gateway.durs) = 1

\* Ticks the ticker emitted strictly before the deadline: those of the
\* intervals 1 .. endTime - 1.
TicksBeforeDeadline == Max2(Min2(now, endTime - 1), 0)

\* ------------------------------------------------------------------ claims

\* C1: with two or more workers no min/max update of the overall result is
\* lost: once Run has returned with at least one recorded request,
\* MinResponseTime is the smallest and MaxResponseTime the largest of all
\* durations the workers measured.
C1_NoLostMinMax ==
    (Returned /\ config.ConcurrentWorkers >= 2 /\ result.TotalRequests > 0)
    => /\ result.MinResponseTime = SetMin(AllDurations)
       /\ result.MaxResponseTime = SetMax(AllDurations)

\* C2: for every operation kind, once Run has returned, a kind with Count > 0
\* has MinDuration equal to the smallest and MaxDuration equal to the largest
\* duration recorded for that kind.
C2_NoLostOpMinMax ==
    Returned =>
        \A k \in Kinds :
            result.OperationStats[k].Count > 0 =>
                /\ trace[k] # {}
                /\ result.OperationStats[k].MinDuration = SetMin(trace[k])
                /\ result.OperationStats[k].MaxDuration = SetMax(trace[k])

\* C3: once Run has returned, TotalRequests = SuccessRequests +
\* FailedRequests.
C3_TotalIsSuccessPlusFailed ==
    Returned =>
        result.TotalRequests = result.SuccessRequests + result.FailedRequests

C3_Witness ==
    /\ Returned
    /\ config.ConcurrentWorkers >= 2
    /\ result.SuccessRequests >= 1
    /\ result.FailedRequests >= 1

\* C4: once Run has returned, the Counts of the three operation kinds add up
\* to TotalRequests.
C4_CountsSumToTotal ==
    Returned => SumCount(result, Kinds) = result.TotalRequests

C4_Witness ==
    /\ Returned
    /\ result.TotalRequests >= 2
    /\ Cardinality({k \in Kinds : result.OperationStats[k].Count >= 1}) >= 2

\* C5: a worker never calls executeOperation at a moment when the deadline
\* has passed or the context has been cancelled.
C5_NoLateStart ==
    [][\A w \in Workers :
          (pc[w] = "ticked" /\ pc'[w] = "exec")
          => (Before(now, endTime) /\ ~cancelled)]_vars

\* C6: with a pool of workers, a gateway that always succeeds in constant
\* time and no cancellation, the TotalRequests Run reports never exceeds the
\* number of ticks emitted before the deadline by more than one.
C6_TotalWithinTicks ==
    (Returned /\ ConstantGateway /\ ~cancelled
       /\ config.ConcurrentWorkers >= 2)
    => result.TotalRequests <= TicksBeforeDeadline + 1

C8_FailureDoesNotStop ==
    /\ \A w \in Pool :
          pc[w] = "done" => (cancelled \/ ~Before(now, endTime))
    /\ Returned =>
          /\ retErr = "nil"
          /\ result.FailedRequests = failed
          /\ (failed = started /\ started > 0)
                => IsPercent(result.ErrorRate, 100)

C8_Witness ==
    /\ Returned
    /\ started >= 2
    /\ failed = started
    /\ result.FailedRequests = result.TotalRequests
    /\ IsPercent(result.ErrorRate, 100)

\* C9: when the context is cancelled, Run returns a nil error and a result
\* whose counters cover exactly the calls that were made.
C9_CancelIsOrderly ==
    (Returned /\ cancelled) =>
        /\ retErr = "nil"
        /\ result.TotalRequests = started
        /\ result.FailedRequests = failed
        /\ result.SuccessRequests = started - failed
        /\ SumCount(result, Kinds) = started

C9_Witness ==
    /\ Returned
    /\ cancelled
    /\ Before(now, endTime)
    /\ result.TotalRequests >= 1

\* C10: a run that ends with TotalRequests = 0 evaluates no division and
\* reports AvgResponseTime, RequestsPerSecond, ErrorRate and every
\* AvgDuration as zero.
C10_ZeroRequests ==
    /\ runPc # "panicked"
    /\ (Returned /\ result.TotalRequests = 0) =>
          /\ divisors = {}
          /\ result.AvgResponseTime = 0
          /\ IsZero(result.RequestsPerSecond)
          /\ IsZero(result.ErrorRate)
          /\ \A k \in Kinds : result.OperationStats[k].AvgDuration = 0

C10_Witness ==
    /\ Returned
    /\ config.ConcurrentWorkers >= 1
    /\ result.TotalRequests = 0

\* C11: when Run has returned with TotalRequests = 0, the reported
\* MinResponseTime and MaxResponseTime and the MinDuration and MaxDuration of
\* every operation kind are zero.
C11_ZeroRequestsMinMax ==
    (Returned /\ result.TotalRequests = 0) =>
        /\ result.MinResponseTime = 0
        /\ result.MaxResponseTime = 0
        /\ \A k \in Kinds :
              /\ result.OperationStats[k].MinDuration = 0
              /\ result.OperationStats[k].MaxDuration = 0

\* C12: a configuration whose three operation weights sum to zero never
\* gets as far as the selection: no worker of such a run ever stands before
\* the call of selectOperation, and the run does not die of a panic.
C12_ZeroWeightsRejected ==
    TotalWeight(config.Operations) = 0 =>
        /\ \A w \in Workers : pc[w] # "ticked"
        /\ runPc # "crashed"

\* C13: for a configuration with zero concurrent workers or a zero request
\* rate, Run never waits on a created rate limiter, never has a worker and
\* never returns a result.
C13_ZeroWorkersOrRateRejected ==
    (config.ConcurrentWorkers = 0 \/ config.RequestRate = 0) =>
        /\ runPc \notin {"wait", "returned"}
        /\ \A w \in Workers : pc[w] = "unused"

\* ================================================== selectOperation alone
\* The load engine before NewStressTest and Run: nothing is configured and
\* nothing runs.
EngineOff ==
    /\ config = [Duration |-> 0, ConcurrentWorkers |-> 0, RequestRate |-> 1,
                 Operations |-> [CreateMailWeight |-> 0, ListMailWeight |-> 0,
                                 SearchWeight |-> 0]]
    /\ gateway = [errs |-> {FALSE}, durs |-> {1}]
    /\ now = 0
    /\ tick = FALSE
    /\ cancelled = FALSE
    /\ result = NewResult
    /\ totalDuration = 0
    /\ pc = [w \in Workers |-> "unused"]
    /\ operation = [w \in Workers |-> "none"]
    /\ duration = [w \in Workers |-> 0]
    /\ runPc = "off"
    /\ late = NotCounted
    /\ retErr = "none"
    /\ divisors = {}
    /\ trace = [k \in Kinds |-> {}]
    /\ started = 0
    /\ failed = 0
    /\ recorded = [k \in Kinds |-> 0]

\* The weights selectOperation is called with: every triple of weights up to
\* MaxWeight, the all-zero triple included.
Weights ==
    [CreateMailWeight : 0..MaxWeight, ListMailWeight : 0..MaxWeight,
     SearchWeight : 0..MaxWeight]

WeightOf(weights, kind) ==
    IF kind = "create" THEN weights.CreateMailWeight
    ELSE IF kind = "list" THEN weights.ListMailWeight
    ELSE weights.SearchWeight

InitSelect ==
    /\ sel \in { [pc |-> "call", weights |-> ws, r |-> -1, op |-> "none"] :
                    ws \in Weights }
    /\ gen = Idle
    /\ pct = Idle
    /\ bench = Idle
    /\ suite = Idle
    /\ mon = Idle
    /\ dbh = Idle
    /\ EngineOff

\* One call of selectOperation: total is computed, r := rand.Intn(total) is
\* drawn (or panics) and the kind is returned.
selectOperationCall ==
    /\ sel.pc = "call"
    /\ IF IntnPanics(TotalWeight(sel.weights))
       THEN sel' = [sel EXCEPT !.pc = "panicked"]
       ELSE \E r \in 0..(TotalWeight(sel.weights) - 1) :
               sel' = [sel EXCEPT !.pc = "returned", !.r = r,
                                  !.op = selectOperation(sel.weights, r)]
    /\ UNCHANGED <<engineVars, gen, pct, bench, suite, mon, dbh>>

NextSelect == selectOperationCall

SelectSpec == InitSelect /\ [][NextSelect]_vars

\* C14: for all non-negative weights (c, l, s) with c + l + s > 0 and every
\* drawn r in [0, c+l+s), selectOperation returns create iff r < c, list iff
\* c <= r < c+l and search iff r >= c+l; a kind of weight 0 is never
\* returned.
C14_SelectByCumulativeRanges ==
    sel.pc = "returned" =>
        LET c == sel.weights.CreateMailWeight
            l == sel.weights.ListMailWeight
        IN /\ (sel.op = "create") <=> (sel.r < c)
           /\ (sel.op = "list") <=> (c <= sel.r /\ sel.r < c + l)
           /\ (sel.op = "search") <=> (sel.r >= c + l)
           /\ sel.op \in Kinds
           /\ WeightOf(sel.weights, sel.op) > 0

C14_Witness ==
    /\ sel.pc = "returned"
    /\ sel.weights = [CreateMailWeight |-> 0, ListMailWeight |-> MaxWeight,
                      SearchWeight |-> 0]
    /\ sel.r = MaxWeight - 1
    /\ sel.op = "list"

\* ===================================== generator.GenerateCreateMailRequest
\* The user pools handed to NewDataGenerator: n distinct user ids, n = 0
\* included.
UserPools == { [i \in 1..n |-> i] : n \in 0..MaxUsers }

Elems(seq) == { seq[i] : i \in 1..Len(seq) }

InitGen ==
    /\ gen \in { [pc |-> "call", userIDs |-> ids, numRecipients |-> 0,
                   req |-> [From |-> 0, To |-> <<>>, Cc |-> <<>>,
                            Bcc |-> <<>>]] : ids \in UserPools }
    /\ sel = Idle
    /\ pct = Idle
    /\ bench = Idle
    /\ suite = Idle
    /\ mon = Idle
    /\ dbh = Idle
    /\ EngineOff

\* Faulty variant of KeepRecipient: the drawn user is taken as it comes.
KeepAnyRecipient(recipient, from) == TRUE

\* if recipient != from (likewise for ccRecipient and bccRecipient)
KeepRecipient(recipient, from) == recipient # from

\* The loop "for i := 0; i < numRecipients; i++" over the users drawn for the
\* To list: a drawn user is appended unless it is the sender.
RECURSIVE toLoop(_, _, _, _)
toLoop(drawn, from, to, i) ==
    IF i > Len(drawn) THEN to
    ELSE toLoop(drawn, from,
                IF KeepRecipient(drawn[i], from) THEN Append(to, drawn[i])
                ELSE to,
                i + 1)

\* The Cc and the Bcc list: nil unless the coin fell on the side of adding
\* one and the drawn user is not the sender.
OptionalRecipient(coin, recipient, from) ==
    IF coin /\ KeepRecipient(recipient, from) THEN <<recipient>> ELSE <<>>

\* One call of GenerateCreateMailRequest, with every outcome of its random
\* draws.  rand.Intn(len(g.userIDs)) panics on an empty pool.
GenerateCreateMailRequest ==
    /\ gen.pc = "call"
    /\ LET ids == gen.userIDs
           n == Len(ids)
       IN IF IntnPanics(n)
          THEN gen' = [gen EXCEPT !.pc = "panicked"]
          ELSE \E f \in 1..n, numRecipients \in 1..MaxRecipients,
                  ccCoin \in BOOLEAN, ccDraw \in 1..n,
                  bccCoin \in BOOLEAN, bccDraw \in 1..n :
                  \E draws \in [1..numRecipients -> 1..n] :
                     LET from == ids[f]
                         drawn == [i \in 1..numRecipients |-> ids[draws[i]]]
                     IN gen' = [gen EXCEPT
                                  !.pc = "returned",
                                  !.numRecipients = numRecipients,
                                  !.req = [From |-> from,
                                           To |-> toLoop(drawn, from, <<>>, 1),
                                           Cc |-> OptionalRecipient(
                                                      ccCoin, ids[ccDraw], from),
                                           Bcc |-> OptionalRecipient(
                                                      bccCoin, ids[bccDraw],
                                                      from)]]
    /\ UNCHANGED <<engineVars, sel, pct, bench, suite, mon, dbh>>

NextGen == GenerateCreateMailRequest

GenSpec == InitGen /\ [][NextGen]_vars

\* C15: the request returned by GenerateCreateMailRequest never holds its own
\* From id in To, Cc or Bcc.
C15_SenderNotRecipient ==
    gen.pc = "returned" =>
        gen.req.From \notin
            Elems(gen.req.To) \cup Elems(gen.req.Cc) \cup Elems(gen.req.Bcc)

C15_Witness ==
    /\ gen.pc = "returned"
    /\ gen.numRecipients = MaxRecipients
    /\ Len(gen.req.To) = MaxRecipients - 1
    /\ Len(gen.req.Cc) = 1
    /\ Len(gen.req.Bcc) = 1

\* C16: a request returned by GenerateCreateMailRequest for a pool of at
\* least 2 users has between 1 and 3 To recipients.
C16_OneToThreeRecipients ==
    (gen.pc = "returned" /\ Len(gen.userIDs) >= 2) =>
        /\ Len(gen.req.To) >= 1
        /\ Len(gen.req.To) <= MaxRecipients

\* ============================================ benchmark.calculatePercentile
\* The durations a query may take.
Durations == 1..MaxDur

\* The samples calculatePercentile is applied to: the durations of the
\* successful queries of at most MaxIter iterations, in the order measured.
Samples == UNION { [1..n -> Durations] : n \in 0..MaxIter }

\* The percentiles benchmarkStrategy asks for.
Percentiles == {50, 95, 99}

\* Faulty variant of OutOfOrder: the comparison is turned round, which sorts
\* the copy in descending order.
OutOfOrderReversed(a, b) == a < b

\* if sorted[i] > sorted[j]
OutOfOrder(a, b) == a > b

\* sorted[i], sorted[j] = sorted[j], sorted[i]
Swap(sorted, i, j) == [sorted EXCEPT ![i] = sorted[j], ![j] = sorted[i]]

\* for j := i + 1; j < len(sorted); j++  (positions counted from 1 here)
RECURSIVE innerLoop(_, _, _)
innerLoop(sorted, i, j) ==
    IF j > Len(sorted) THEN sorted
    ELSE innerLoop(IF OutOfOrder(sorted[i], sorted[j])
                   THEN Swap(sorted, i, j) ELSE sorted,
                   i, j + 1)

\* for i := 0; i < len(sorted); i++
RECURSIVE outerLoop(_, _)
outerLoop(sorted, i) ==
    IF i > Len(sorted) THEN sorted
    ELSE outerLoop(innerLoop(sorted, i, i + 1), i + 1)

\* Faulty variant of PercentileIndex: the rank is rounded up and used as it
\* is, without the clamp to the last position.
PercentileIndexCeil(n, percentile) == (n * percentile + 99) \div 100

\* index := (len(sorted) * percentile) / 100, clamped to len(sorted) - 1.
\* The index counts from 0 as in the program.
PercentileIndex(n, percentile) ==
    LET index == (n * percentile) \div 100
    IN IF index >= n THEN n - 1 ELSE index

\* Faulty variant of CallerSlice: sorted shares the array of durations, so
\* the sort reorders the caller's sample.
CallerSliceAliased(durations, sorted) == sorted

\* The caller's slice once the call has returned: sorted is a fresh array
\* filled by copy, the sort does not touch durations.
CallerSlice(durations, sorted) == durations

\* calculatePercentile.  value is the duration returned, indexed the set of
\* pairs <<len(sorted), index>> for which sorted[index] was evaluated, panics
\* tells that this index was out of range, durations is the caller's slice
\* after the call.
calculatePercentile(durations, percentile) ==
    IF Len(durations) = 0
    THEN [value |-> 0, indexed |-> {}, panics |-> FALSE,
          durations |-> durations]
    ELSE LET sorted == outerLoop(durations, 1)
             n == Len(sorted)
             index == PercentileIndex(n, percentile)
             inRange == 0 <= index /\ index < n
         IN [value |-> IF inRange THEN sorted[index + 1] ELSE 0,
             indexed |-> {<<n, index>>},
             panics |-> ~inRange,
             durations |-> CallerSlice(durations, sorted)]

InitPercentile ==
    /\ pct \in { [pc |-> "call", sample |-> smp, durations |-> smp,
                   percentile |-> p, results |-> <<>>, indexed |-> {}] :
                    smp \in Samples, p \in Percentiles }
    /\ sel = Idle
    /\ gen = Idle
    /\ bench = Idle
    /\ suite = Idle
    /\ mon = Idle
    /\ dbh = Idle
    /\ EngineOff

\* calculatePercentile is called on the slice with the percentile, a first
\* and then a second time.
calculatePercentileCall ==
    /\ pct.pc = "call"
    /\ Len(pct.results) < 2
    /\ LET out == calculatePercentile(pct.durations, pct.percentile)
       IN pct' = [pct EXCEPT
                    !.pc = IF out.panics THEN "panicked" ELSE "call",
                    !.results = Append(@, out.value),
                    !.indexed = @ \cup out.indexed,
                    !.durations = out.durations]
    /\ UNCHANGED <<engineVars, sel, gen, bench, suite, mon, dbh>>

NextPercentile == calculatePercentileCall

PercentileSpec == InitPercentile /\ [][NextPercentile]_vars

\* Number of positions of seq that hold v.
Occurrences(seq, v) == Cardinality({ i \in 1..Len(seq) : seq[i] = v })

\* The sample in ascending order: the non-decreasing sequence with the same
\* elements, each as often as in the sample.
SortedAscending(seq) ==
    CHOOSE t \in [1..Len(seq) -> Elems(seq)] :
        /\ \A i \in 1..Len(seq) : \A j \in i..Len(seq) : t[i] <= t[j]
        /\ \A v \in Elems(seq) : Occurrences(t, v) = Occurrences(seq, v)

\* The nearest-rank element: position min(floor(n*p/100), n-1), counted from
\* 0, of the sample in ascending order.
NearestRank(seq, p) ==
    SortedAscending(seq)[Min2((Len(seq) * p) \div 100, Len(seq) - 1) + 1]

\* C17: for every non-empty sample of size n and every percentile p in
\* {50, 95, 99}, calculatePercentile returns the element at index
\* min(floor(n*p/100), n-1) of the sample sorted ascending.
C17_NearestRank ==
    (pct.pc # "idle" /\ Len(pct.sample) > 0) =>
        /\ pct.pc # "panicked"
        /\ \A c \in 1..Len(pct.results) :
              pct.results[c] = NearestRank(pct.sample, pct.percentile)

C17_Witness ==
    /\ pct.pc = "call"
    /\ Len(pct.sample) = MaxIter
    /\ pct.sample[1] = MaxDur
    /\ pct.sample[MaxIter] = 1
    /\ pct.percentile = 50
    /\ Len(pct.results) >= 1
    /\ pct.results[1] = NearestRank(pct.sample, 50)

NewSearchBenchmarkResult ==
    [TotalQueries |-> 0, SuccessQueries |-> 0, FailedQueries |-> 0,
     TotalResults |-> 0, AvgDuration |-> 0, MinDuration |-> Hour,
     MaxDuration |-> 0, P50Duration |-> 0, P95Duration |-> 0, P99Duration |-> 0]

\* The locals of benchmarkStrategy on entry, for n configured iterations.
NewBenchmark(n) ==
    [pc |-> "setup", iterations |-> n, i |-> 0, durations |-> <<>>,
     result |-> NewSearchBenchmarkResult, indexed |-> {}, outcomes |-> <<>>]

\* benchmarkStrategy has been called for one strategy, with
\* config.Benchmark.Iterations between 0 and MaxIter.
InitBench ==
    /\ bench \in { NewBenchmark(n) : n \in 0..MaxIter }
    /\ sel = Idle
    /\ gen = Idle
    /\ pct = Idle
    /\ suite = Idle
    /\ mon = Idle
    /\ dbh = Idle
    /\ EngineOff

\* strategy.SetupDatabase returns: on an error benchmarkStrategy returns nil
\* and the error, otherwise it goes on to the iterations.
SetupDatabase ==
    /\ bench.pc = "setup"
    /\ \E ok \in BOOLEAN :
          bench' = [bench EXCEPT !.pc = IF ok THEN "loop" ELSE "failed"]
    /\ UNCHANGED <<engineVars, sel, gen, pct, suite, mon, dbh>>

\* len(mails) of a successful query.
MailCounts == {0, 1}

\* result.TotalQueries++
CountQuery(b) == [b EXCEPT !.i = @ + 1, !.result.TotalQueries = @ + 1]

\* The body of the loop below the error test: the query is a success, its
\* mails and its duration are recorded.
QuerySucceeded(b, d, n) ==
    [b EXCEPT !.result.SuccessQueries = @ + 1,
              !.result.TotalResults = @ + n,
              !.durations = Append(@, d),
              !.result.MinDuration = Min2(@, d),
              !.result.MaxDuration = Max2(@, d)]

\* Faulty variant of QueryFailed: the continue is missing and the failed
\* query, which returned no mails, goes on through the rest of the body.
QueryFailedFallsThrough(b, d) ==
    QuerySucceeded([b EXCEPT !.result.FailedQueries = @ + 1], d, 0)

\* if err != nil { result.FailedQueries++; continue }
QueryFailed(b, d) == [b EXCEPT !.result.FailedQueries = @ + 1]

\* The body of the loop for a query that returns an error, or n mails,
\* after the duration d.  outcomes keeps what each query returned.
Query(b, failedQuery, d, n) ==
    LET c == [CountQuery(b) EXCEPT
                 !.outcomes = Append(@, <<failedQuery, d, n>>)]
    IN IF failedQuery THEN QueryFailed(c, d) ELSE QuerySucceeded(c, d, n)

\* One iteration of the loop.
SearchMails ==
    /\ bench.pc = "loop"
    /\ bench.i < bench.iterations
    /\ \E failedQuery \in BOOLEAN, d \in Durations, n \in MailCounts :
          /\ failedQuery => n = 0
          /\ bench' = Query(bench, failedQuery, d, n)
    /\ UNCHANGED <<engineVars, sel, gen, pct, suite, mon, dbh>>

\* for _, d := range durations { totalDuration += d }
RECURSIVE SumSeq(_)
SumSeq(seq) == IF seq = <<>> THEN 0 ELSE Head(seq) + SumSeq(Tail(seq))

\* if len(durations) > 0
HasSample(n) == n > 0

\* if result.SuccessQueries > 0
HasSuccess(n) == n > 0

\* Faulty variant of StrategyPercentiles: the arguments of the first and the
\* third call are exchanged.
StrategyPercentilesSwapped ==
    [P50Duration |-> 99, P95Duration |-> 95, P99Duration |-> 50]

\* The percentile asked for each of the three fields.
StrategyPercentiles ==
    [P50Duration |-> 50, P95Duration |-> 95, P99Duration |-> 99]

\* The code below the loop: "Calculate average", "Calculate percentiles"
\* (three calls of calculatePercentile, one after the other, on the same
\* slice) and return result, nil.
benchmarkReturn(b) ==
    LET res == b.result
        avg == IF HasSuccess(res.SuccessQueries)
               THEN [res EXCEPT !.AvgDuration =
                        Quot(SumSeq(b.durations), res.SuccessQueries)]
               ELSE res
        c50 == calculatePercentile(b.durations,
                                   StrategyPercentiles.P50Duration)
        c95 == calculatePercentile(c50.durations,
                                   StrategyPercentiles.P95Duration)
        c99 == calculatePercentile(c95.durations,
                                   StrategyPercentiles.P99Duration)
    IN IF HasSample(Len(b.durations))
       THEN [b EXCEPT
               !.pc = IF c50.panics \/ c95.panics \/ c99.panics
                      THEN "panicked" ELSE "returned",
               !.result = [avg EXCEPT
                              !.P50Duration = c50.value,
                              !.P95Duration = c95.value,
                              !.P99Duration = c99.value],
               !.indexed = c50.indexed \cup c95.indexed \cup c99.indexed,
               !.durations = c99.durations]
       ELSE [b EXCEPT !.pc = "returned", !.result = avg]

\* The loop is over.
benchmarkFinish ==
    /\ bench.pc = "loop"
    /\ bench.i >= bench.iterations
    /\ bench' = benchmarkReturn(bench)
    /\ UNCHANGED <<engineVars, sel, gen, pct, suite, mon, dbh>>

NextBench ==
    \/ SetupDatabase
    \/ SearchMails
    \/ benchmarkFinish

BenchSpec == InitBench /\ [][NextBench]_vars

\* benchmarkStrategy has returned a result.
BenchReturned == bench.pc = "returned"

\* C18: a strategy result built from a non-empty success sample has
\* P50Duration <= P95Duration <= P99Duration, and the three equal the single
\* element when the sample has exactly one.
C18_PercentilesOrdered ==
    (BenchReturned /\ bench.result.SuccessQueries > 0) =>
        /\ bench.result.P50Duration <= bench.result.P95Duration
        /\ bench.result.P95Duration <= bench.result.P99Duration
        /\ bench.result.SuccessQueries = 1 =>
              /\ bench.result.P50Duration = bench.durations[1]
              /\ bench.result.P95Duration = bench.durations[1]
              /\ bench.result.P99Duration = bench.durations[1]

C18_Witness ==
    /\ BenchReturned
    /\ bench.result.SuccessQueries >= 3
    /\ bench.result.P50Duration < bench.result.P95Duration
    /\ bench.result.P95Duration <= bench.result.P99Duration

\* C20: calculatePercentile never indexes outside the sorted sample; when
\* the success sample of a strategy is empty, P50Duration, P95Duration and
\* P99Duration are zero and no index was evaluated; every index evaluated
\* for a sample of size n >= 1 lies in [0, n-1].
C20_PercentileIndexInBounds ==
    bench.pc # "idle" =>
        /\ bench.pc # "panicked"
        /\ (BenchReturned /\ bench.result.SuccessQueries = 0) =>
              /\ bench.result.P50Duration = 0
              /\ bench.result.P95Duration = 0
              /\ bench.result.P99Duration = 0
              /\ bench.indexed = {}
        /\ \A ni \in bench.indexed :
              /\ ni[1] >= 1
              /\ 0 <= ni[2]
              /\ ni[2] <= ni[1] - 1

C20_Witness ==
    /\ BenchReturned
    /\ bench.iterations = MaxIter
    /\ bench.result.FailedQueries = MaxIter
    /\ bench.result.SuccessQueries = 0
    /\ bench.result.P99Duration = 0

\* The queries of the loop that returned no error, by their position.
SuccessfulQueries(outs) == { i \in 1..Len(outs) : ~outs[i][1] }

\* The durations of the successful queries.
SuccessDurations(outs) == { outs[i][2] : i \in SuccessfulQueries(outs) }

\* The mails returned by the successful queries, all together.
RECURSIVE SumMails(_)
SumMails(outs) ==
    IF outs = <<>> THEN 0
    ELSE (IF Head(outs)[1] THEN 0 ELSE Head(outs)[3]) + SumMails(Tail(outs))

\* C22: in every result returned by benchmarkStrategy, TotalQueries =
\* SuccessQueries + FailedQueries = the configured iterations, every failed
\* query adds 1 to FailedQueries, and the duration sample, TotalResults,
\* MinDuration and MaxDuration come from the successful queries only.
C22_OnlySuccessesSampled ==
    BenchReturned =>
        /\ bench.result.TotalQueries =
              bench.result.SuccessQueries + bench.result.FailedQueries
        /\ bench.result.TotalQueries = bench.iterations
        /\ bench.result.FailedQueries =
              Len(bench.outcomes)
                 - Cardinality(SuccessfulQueries(bench.outcomes))
        /\ Len(bench.durations) = bench.result.SuccessQueries
        /\ \A v \in Durations :
              Occurrences(bench.durations, v) =
                 Cardinality({ i \in SuccessfulQueries(bench.outcomes) :
                                  bench.outcomes[i][2] = v })
        /\ bench.result.TotalResults = SumMails(bench.outcomes)
        /\ bench.result.MinDuration =
              IF SuccessDurations(bench.outcomes) = {} THEN Hour
              ELSE SetMin(SuccessDurations(bench.outcomes))
        /\ bench.result.MaxDuration =
              IF SuccessDurations(bench.outcomes) = {} THEN 0
              ELSE SetMax(SuccessDurations(bench.outcomes))

C22_Witness ==
    /\ BenchReturned
    /\ bench.result.SuccessQueries >= 2
    /\ bench.result.TotalResults >= 1
    /\ bench.result.MaxDuration < MaxDur
    /\ \E i \in 1..Len(bench.outcomes) :
          bench.outcomes[i][1] /\ bench.outcomes[i][2] = MaxDur

\* ================================================ benchmark.SearchBenchmark.Run
\* sb.strategies, by strategy.GetName(), in the order NewSearchBenchmark
\* lists them; the first NumStrategies of them are followed.
Strategies ==
    SubSeq(<<"text_search", "regex", "aggregation", "index_optimized">>,
           1, NumStrategies)

\* What one query of a strategy can return: an error, or mails after a short
\* duration, after the longest of the short ones, or after an hour.
SuiteOutcomes ==
    {<<TRUE, 1, 0>>}
    \cup { <<FALSE, d, n>> : d \in {1, MaxDur, Hour},
                             n \in { m \in MailCounts : m > 0 } }

\* benchmarkStrategy for a strategy whose setup succeeds and whose queries
\* return outs, one after the other.
RECURSIVE RunQueries(_, _)
RunQueries(b, outs) ==
    IF outs = <<>> THEN b
    ELSE RunQueries(Query(b, Head(outs)[1], Head(outs)[2], Head(outs)[3]),
                    Tail(outs))

benchmarkStrategy(n, outs) == benchmarkReturn(RunQueries(NewBenchmark(n), outs))

\* Denominators of the divisions benchmarkStrategy evaluates for a result.
StrategyDivisors(res) ==
    IF HasSuccess(res.SuccessQueries)
    THEN {<<"benchmarkStrategy", res.SuccessQueries>>} ELSE {}

\* Run has been called with config.Benchmark.Iterations between 0 and
\* MaxSuiteIter; results is the map it fills.
InitSuite ==
    /\ suite \in { [pc |-> "run", iterations |-> n, idx |-> 1,
                     results |-> <<>>, setupFailed |-> {}, err |-> "none",
                     divisors |-> {}, reports |-> <<>>, calls |-> <<>>] :
                   n \in 0..MaxSuiteIter }
    /\ sel = Idle
    /\ gen = Idle
    /\ pct = Idle
    /\ bench = Idle
    /\ mon = Idle
    /\ dbh = Idle
    /\ EngineOff

\* Faulty variant of SkipStrategy: the loop over the strategies is left.
SkipStrategyBreaks(s, name) ==
    [s EXCEPT !.idx = Len(Strategies) + 1, !.setupFailed = @ \cup {name}]

\* if err != nil { ...; continue }
SkipStrategy(s, name) ==
    [s EXCEPT !.idx = @ + 1, !.setupFailed = @ \cup {name}]

\* results[strategy.GetName()] = result, then the lines Run prints, the
\* "Success:" line with its division by TotalQueries among them.
StoreResult(s, name, res) ==
    [s EXCEPT !.idx = @ + 1,
              !.results = (name :> res) @@ @,
              !.divisors = @ \cup StrategyDivisors(res)
                             \cup {<<"Run", res.TotalQueries>>}]

\* Faulty variant of StrategyCalls: benchmarkStrategy goes on to the
\* queries although the setup has failed.
StrategyCallsDespiteError(name, ok, n) ==
    <<<<"SetupDatabase", name>>>> \o [i \in 1..n |-> <<"SearchMails", name>>]

\* The calls benchmarkStrategy makes on a strategy, in their order:
\* SetupDatabase and, unless it returned an error, one SearchMails for each
\* of the n iterations.
StrategyCalls(name, ok, n) ==
    <<<<"SetupDatabase", name>>>>
       \o (IF ok THEN [i \in 1..n |-> <<"SearchMails", name>>] ELSE <<>>)

\* calls keeps the calls made on the strategies so far.
Called(s, name, ok) ==
    [s EXCEPT !.calls = @ \o StrategyCalls(name, ok, s.iterations)]

\* One round of the loop of Run: benchmarkStrategy returns an error because
\* the setup failed, or the result of its queries.
RunStrategy ==
    /\ suite.pc = "run"
    /\ suite.idx <= Len(Strategies)
    /\ LET name == Strategies[suite.idx]
       IN \/ suite' = SkipStrategy(Called(suite, name, FALSE), name)
          \/ \E outs \in [1..suite.iterations -> SuiteOutcomes] :
                LET b == benchmarkStrategy(suite.iterations, outs)
                IN suite' = IF b.pc = "panicked"
                            THEN [suite EXCEPT !.pc = "panicked"]
                            ELSE StoreResult(Called(suite, name, TRUE),
                                             name, b.result)
    /\ UNCHANGED <<engineVars, sel, gen, pct, bench, mon, dbh>>

\* return results, nil
RunReturn ==
    /\ suite.pc = "run"
    /\ suite.idx > Len(Strategies)
    /\ suite' = [suite EXCEPT !.pc = "returned", !.err = "nil"]
    /\ UNCHANGED <<engineVars, sel, gen, pct, bench, mon, dbh>>

\* The locals of GenerateComparisonReport before its loop; maxSuccess is
\* kept as the pair of the counts whose quotient it is.
NoWinners ==
    [fastestAvg |-> "", fastestP99 |-> "", mostReliable |-> "",
     minAvg |-> Hour, minP99 |-> Hour, maxSuccess |-> <<0, 1>>]

\* successRate > maxSuccess, for successRate = res.SuccessQueries /
\* res.TotalQueries and both denominators positive.
MoreReliable(res, maxSuccess) ==
    res.SuccessQueries * maxSuccess[2] > maxSuccess[1] * res.TotalQueries

\* The body of the loop of GenerateComparisonReport for one entry.
Compare(best, name, res) ==
    IF ~HasSuccess(res.SuccessQueries) THEN best
    ELSE LET a == IF res.AvgDuration < best.minAvg
                  THEN [best EXCEPT !.minAvg = res.AvgDuration,
                                    !.fastestAvg = name]
                  ELSE best
             b == IF res.P99Duration < a.minP99
                  THEN [a EXCEPT !.minP99 = res.P99Duration,
                                 !.fastestP99 = name]
                  ELSE a
         IN IF MoreReliable(res, b.maxSuccess)
            THEN [b EXCEPT !.maxSuccess =
                              <<res.SuccessQueries, res.TotalQueries>>,
                           !.mostReliable = name]
            ELSE b

\* for name, result := range results, the keys coming in the given order.
RECURSIVE Range(_, _, _)
Range(results, order, best) ==
    IF order = <<>> THEN best
    ELSE Range(results, Tail(order),
               Compare(best, Head(order), results[Head(order)]))

\* The orders in which a range over a map with these keys can yield them.
IterationOrders(keys) ==
    { o \in [1..Cardinality(keys) -> keys] :
         \A i, j \in 1..Cardinality(keys) : o[i] = o[j] => i = j }

\* Denominators of the divisions GenerateComparisonReport evaluates.
ReportDivisors(results) ==
    { <<"GenerateComparisonReport", results[k].TotalQueries>> :
         k \in { j \in DOMAIN results :
                    HasSuccess(results[j].SuccessQueries) } }

\* GenerateComparisonReport(results) on the map Run returned; main calls it
\* once, a second call is followed to compare the two.
GenerateComparisonReport ==
    /\ suite.pc = "returned"
    /\ Len(suite.reports) < 2
    /\ \E order \in IterationOrders(DOMAIN suite.results) :
          suite' = [suite EXCEPT
                      !.reports =
                         Append(@, Range(suite.results, order, NoWinners)),
                      !.divisors = @ \cup ReportDivisors(suite.results)]
    /\ UNCHANGED <<engineVars, sel, gen, pct, bench, mon, dbh>>

NextSuite ==
    \/ RunStrategy
    \/ RunReturn
    \/ GenerateComparisonReport

SuiteSpec == InitSuite /\ [][NextSuite]_vars

\* C21: Run returns a nil error and a map whose keys are exactly the names
\* of the strategies whose setup succeeded; a strategy whose setup fails is
\* skipped and the strategies after it are still benchmarked.
C21_KeysAreSetUpStrategies ==
    (suite.pc # "idle" /\ suite.pc = "returned") =>
        /\ suite.err = "nil"
        /\ DOMAIN suite.results = Elems(Strategies) \ suite.setupFailed
        /\ \A k \in DOMAIN suite.results :
              suite.results[k].TotalQueries = suite.iterations

C21_Witness ==
    /\ suite.pc = "returned"
    /\ suite.setupFailed = {Strategies[1]}
    /\ DOMAIN suite.results = Elems(Strategies) \ {Strategies[1]}
    /\ Cardinality(DOMAIN suite.results) = Len(Strategies) - 1
    /\ suite.iterations >= 1

\* The entries GenerateComparisonReport looks at.
Ranked == { k \in DOMAIN suite.results : suite.results[k].SuccessQueries > 0 }

\* C23: a report names only keys of the map, and among the entries with
\* SuccessQueries > 0 its fastest average has the least AvgDuration, its
\* fastest P99 the least P99Duration, its most reliable the greatest
\* SuccessQueries / TotalQueries.
C23_WinnersAreBest ==
    (suite.pc # "idle" /\ Ranked # {}) =>
        \A i \in 1..Len(suite.reports) :
           LET r == suite.reports[i]
           IN /\ r.fastestAvg \in Ranked
              /\ r.fastestP99 \in Ranked
              /\ r.mostReliable \in Ranked
              /\ \A k \in Ranked :
                    /\ suite.results[r.fastestAvg].AvgDuration
                          <= suite.results[k].AvgDuration
                    /\ suite.results[r.fastestP99].P99Duration
                          <= suite.results[k].P99Duration
                    /\ suite.results[r.mostReliable].SuccessQueries
                             * suite.results[k].TotalQueries
                          >= suite.results[k].SuccessQueries
                                * suite.results[r.mostReliable].TotalQueries

\* C24: two evaluations of GenerateComparisonReport on the same map name the
\* same three winners.
C24_SameWinnersTwice ==
    (suite.pc # "idle" /\ Len(suite.reports) = 2) =>
        suite.reports[1] = suite.reports[2]

\* C25: no division of the benchmark is evaluated with a denominator of 0.
C25_NoZeroDenominator ==
    suite.pc # "idle" => \A d \in suite.divisors : d[2] # 0

\* ================================================ monitoring.MonitoringManager
\* NewMonitoringManager(config): the two clients exist or are nil, the two
\* snapshot slices are empty.  pc is the position of main, collector that
\* of the goroutine running periodicCollection; each of the two appends to
\* one slice after the other (slice tells which) and an append is a read of
\* the slice (kept in mainRead, collectorRead) followed by the write of the
\* longer one.  ctxDone is the context main hands to StartMonitoring and
\* StopMonitoring, tick the channel of the collector's ticker; a snapshot is
\* written as the name of the code that appended it.
Slices == <<"prometheusSnapshots", "systemSnapshots">>

InitMonitoring ==
    /\ mon \in { [pc |-> "new", slice |-> 1, mainRead |-> <<>>,
                   collector |-> "none", collectorSlice |-> 1,
                   collectorRead |-> <<>>,
                   EnablePrometheus |-> p, EnableSystemMonitor |-> q,
                   prometheusSnapshots |-> <<>>, systemSnapshots |-> <<>>,
                   tick |-> FALSE, ticks |-> 0, ctxDone |-> FALSE,
                   report |-> <<>>] : p, q \in BOOLEAN }
    /\ sel = Idle
    /\ gen = Idle
    /\ pct = Idle
    /\ bench = Idle
    /\ suite = Idle
    /\ dbh = Idle
    /\ EngineOff

\* if mm.prometheusClient != nil, if mm.systemMonitor != nil
HasClient(m, i) ==
    IF i = 1 THEN m.EnablePrometheus ELSE m.EnableSystemMonitor

\* One collection by the only thread there is: each client that exists is
\* asked for its metrics and the snapshot is appended unless the client
\* returned an error.
Collect(m, who, promErr, sysErr) ==
    [m EXCEPT
       !.prometheusSnapshots =
          IF HasClient(m, 1) /\ ~promErr THEN Append(@, who) ELSE @,
       !.systemSnapshots =
          IF HasClient(m, 2) /\ ~sysErr THEN Append(@, who) ELSE @]

\* StartMonitoring: initial snapshots, go mm.periodicCollection(ctx).
StartMonitoring ==
    /\ mon.pc = "new"
    /\ \E promErr, sysErr \in BOOLEAN :
          mon' = [Collect(mon, "StartMonitoring", promErr, sysErr) EXCEPT
                    !.pc = "monitoring", !.collector = "select"]
    /\ UNCHANGED <<engineVars, sel, gen, pct, bench, suite, dbh>>

\* The ticker of periodicCollection fires; its channel holds one tick.
ScrapeTick ==
    /\ mon.collector # "none"
    /\ mon.collector # "returned"
    /\ mon.pc # "exited"
    /\ ~mon.tick
    /\ mon.ticks < MaxScrapes
    /\ mon' = [mon EXCEPT !.tick = TRUE, !.ticks = @ + 1]
    /\ UNCHANGED <<engineVars, sel, gen, pct, bench, suite, dbh>>

\* periodicCollection, case <-ticker.C
periodicReceive ==
    /\ mon.collector = "select"
    /\ mon.pc # "exited"
    /\ mon.tick
    /\ mon' = [mon EXCEPT !.tick = FALSE, !.collector = "collect",
                          !.collectorSlice = 1]
    /\ UNCHANGED <<engineVars, sel, gen, pct, bench, suite, dbh>>

\* periodicCollection asks a client for its metrics; with no client or an
\* error it goes on, otherwise it reads the slice to append to.
periodicScrape ==
    /\ mon.collector = "collect"
    /\ mon.pc # "exited"
    /\ LET i == mon.collectorSlice
       IN \/ /\ HasClient(mon, i)
             /\ mon' = [mon EXCEPT !.collector = "append",
                                   !.collectorRead = mon[Slices[i]]]
          \/ mon' = [mon EXCEPT
                       !.collector = IF i < Len(Slices) THEN "collect"
                                     ELSE "select",
                                !.collectorSlice = (i % Len(Slices)) + 1]
    /\ UNCHANGED <<engineVars, sel, gen, pct, bench, suite, dbh>>

\* periodicCollection writes the slice it has read, one snapshot longer.
periodicAppend ==
    /\ mon.collector = "append"
    /\ mon.pc # "exited"
    /\ LET i == mon.collectorSlice
       IN mon' = [mon EXCEPT
                    ![Slices[i]] =
                       Append(mon.collectorRead, "periodicCollection"),
                    !.collectorRead = <<>>,
                    !.collector = IF i < Len(Slices) THEN "collect"
                                  ELSE "select",
                    !.collectorSlice = (i % Len(Slices)) + 1]
    /\ UNCHANGED <<engineVars, sel, gen, pct, bench, suite, dbh>>

\* periodicCollection, case <-ctx.Done(): return
periodicReturn ==
    /\ mon.collector = "select"
    /\ mon.pc # "exited"
    /\ mon.ctxDone
    /\ mon' = [mon EXCEPT !.collector = "returned"]
    /\ UNCHANGED <<engineVars, sel, gen, pct, bench, suite, dbh>>

\* The signal handler of main calls cancel().
Interrupt ==
    /\ mon.pc # "exited"
    /\ ~mon.ctxDone
    /\ mon' = [mon EXCEPT !.ctxDone = TRUE]
    /\ UNCHANGED <<engineVars, sel, gen, pct, bench, suite, dbh>>

\* main calls StopMonitoring, which starts with the final snapshots.
StopMonitoring ==
    /\ mon.pc = "monitoring"
    /\ mon' = [mon EXCEPT !.pc = "final", !.slice = 1]
    /\ UNCHANGED <<engineVars, sel, gen, pct, bench, suite, dbh>>

\* StopMonitoring asks a client for its final metrics; with no client or an
\* error it goes on, otherwise it reads the slice to append to.
finalScrape ==
    /\ mon.pc = "final"
    /\ LET i == mon.slice
       IN \/ /\ HasClient(mon, i)
             /\ mon' = [mon EXCEPT !.pc = "append",
                                   !.mainRead = mon[Slices[i]]]
          \/ mon' = [mon EXCEPT
                       !.pc = IF i < Len(Slices) THEN "final"
                              ELSE "generateReport",
                                !.slice = (i % Len(Slices)) + 1]
    /\ UNCHANGED <<engineVars, sel, gen, pct, bench, suite, dbh>>

\* StopMonitoring writes the slice it has read, one snapshot longer.
finalAppend ==
    /\ mon.pc = "append"
    /\ LET i == mon.slice
       IN mon' = [mon EXCEPT
                    ![Slices[i]] = Append(mon.mainRead, "StopMonitoring"),
                    !.mainRead = <<>>,
                    !.pc = IF i < Len(Slices) THEN "final"
                           ELSE "generateReport",
                    !.slice = (i % Len(Slices)) + 1]
    /\ UNCHANGED <<engineVars, sel, gen, pct, bench, suite, dbh>>

\* generateReport reads the two slices; StopMonitoring returns the report.
\* Nothing in StopMonitoring addresses the collector or the context.
generateReport ==
    /\ mon.pc = "generateReport"
    /\ mon' = [mon EXCEPT !.pc = "stopped",
                          !.report = <<Len(mon.prometheusSnapshots),
                                       Len(mon.systemSnapshots)>>]
    /\ UNCHANGED <<engineVars, sel, gen, pct, bench, suite, dbh>>

\* main writes its reports and returns: the deferred cancel() runs and the
\* process ends.
mainReturns ==
    /\ mon.pc = "stopped"
    /\ mon' = [mon EXCEPT !.pc = "exited", !.ctxDone = TRUE]
    /\ UNCHANGED <<engineVars, sel, gen, pct, bench, suite, dbh>>

NextMonitoring ==
    \/ StartMonitoring
    \/ ScrapeTick
    \/ periodicReceive
    \/ periodicScrape
    \/ periodicAppend
    \/ periodicReturn
    \/ Interrupt
    \/ StopMonitoring
    \/ finalScrape
    \/ finalAppend
    \/ generateReport
    \/ mainReturns

MonitoringSpec == InitMonitoring /\ [][NextMonitoring]_vars

\* C29: once StopMonitoring has returned its report, no further snapshot is
\* appended to prometheusSnapshots or systemSnapshots.
C29_NoSnapshotAfterStop ==
    [][mon.pc = "stopped" =>
          /\ mon'.prometheusSnapshots = mon.prometheusSnapshots
          /\ mon'.systemSnapshots = mon.systemSnapshots]_vars

\* ===================================================== load engine, continued
\* The workers at a place of their code: "exec" is inside executeOperation,
\* "ticked" between the receive of a tick and the start of the operation.
WorkersAt(l) == Cardinality({ w \in Workers : pc[w] = l })

RECURSIVE SumErrors(_, _)
SumErrors(res, ks) ==
    IF ks = {} THEN 0
    ELSE LET k == CHOOSE j \in ks : TRUE
         IN res.OperationStats[k].Errors + SumErrors(res, ks \ {k})

\* C26: the result is frozen at completion: Run has returned only when every
\* worker of the pool has left its loop, and no step taken after Run has
\* returned changes the result.
C26_ResultFrozen ==
    /\ [](Returned => \A w \in Pool : pc[w] = "done")
    /\ [][Returned => result' = result]_vars

C26_Witness ==
    /\ Returned
    /\ config.ConcurrentWorkers >= 2
    /\ result.TotalRequests >= 2
    /\ \A w \in Pool : pc[w] = "done"

\* C27: every gateway call a worker started is either still in flight or
\* counted exactly once in TotalRequests and in exactly one of
\* SuccessRequests and FailedRequests, whatever the time at which it
\* returns; when Run has returned no call is in flight.
C27_InFlightIsRecorded ==
    /\ started = result.TotalRequests + WorkersAt("exec")
    /\ result.FailedRequests = failed
    /\ result.SuccessRequests = result.TotalRequests - failed
    /\ Returned => WorkersAt("exec") = 0

C27_Witness ==
    /\ runPc = "wait"
    /\ WorkersAt("exec") >= 1
    /\ ~Before(now, endTime)
    /\ result.TotalRequests >= 1
    /\ tick

\* C28: once Run has returned, the Errors of the three kinds add up to
\* FailedRequests and no kind has more Errors than Count.
C28_ErrorsSumToFailed ==
    Returned =>
        /\ SumErrors(result, Kinds) = result.FailedRequests
        /\ \A k \in Kinds :
              result.OperationStats[k].Errors <= result.OperationStats[k].Count

C28_Witness ==
    /\ Returned
    /\ result.FailedRequests >= 1
    /\ result.SuccessRequests >= 1
    /\ result.OperationStats["create"].Errors = result.FailedRequests
    /\ result.OperationStats["create"].Count = result.TotalRequests

\* C30: each tick is consumed by at most one worker: as long as the clock
\* counts the ticks the limiter has emitted, the operations started, the
\* ticks held by workers about to start one and the tick waiting in the
\* channel are together no more than those ticks.
C30_StartsWithinTicks ==
    (runPc = "wait" /\ now < MaxTime) =>
        started + WorkersAt("ticked") + (IF tick THEN 1 ELSE 0) <= now

C30_Witness ==
    /\ runPc = "wait"
    /\ now < MaxTime
    /\ config.ConcurrentWorkers >= 2
    /\ started = now
    /\ started >= 2

RECURSIVE SumRecorded(_)
SumRecorded(ks) ==
    IF ks = {} THEN 0
    ELSE LET k == CHOOSE j \in ks : TRUE
         IN recorded[k] + SumRecorded(ks \ {k})

\* C32: after Run has returned with TotalRequests > 0, AvgResponseTime is
\* the integer quotient of the sum of all measured durations by
\* TotalRequests, and for every kind with Count > 0 AvgDuration is the
\* integer quotient of the sum of that kind's durations by its Count.
C32_AveragesAreQuotients ==
    (Returned /\ result.TotalRequests > 0) =>
        /\ result.AvgResponseTime =
              SumRecorded(Kinds) \div result.TotalRequests
        /\ \A k \in Kinds :
              result.OperationStats[k].Count > 0 =>
                 result.OperationStats[k].AvgDuration =
                    recorded[k] \div result.OperationStats[k].Count

C32_Witness ==
    /\ Returned
    /\ result.TotalRequests = 2
    /\ recorded["search"] = 1 + MaxDur
    /\ result.OperationStats["search"].Count = 2
    /\ result.OperationStats["search"].AvgDuration = (1 + MaxDur) \div 2
    /\ result.AvgResponseTime = (1 + MaxDur) \div 2

\* C33: each worker starts at most one operation after the deadline has
\* passed, so no more operations are started after the deadline than the
\* pool has workers.
C33_OneLateStartPerWorker ==
    late # NotCounted =>
        /\ \A w \in Workers : late[w] <= 1
        /\ Cardinality({ w \in Workers : late[w] >= 1 })
              <= config.ConcurrentWorkers

C33_Witness ==
    /\ late # NotCounted
    /\ config.ConcurrentWorkers >= 2
    /\ \A w \in Pool : late[w] = 1
    /\ Returned
    /\ result.TotalRequests = config.ConcurrentWorkers

\* C34: every result returned by benchmarkStrategy has MinDuration <=
\* P50Duration <= P95Duration <= P99Duration <= MaxDuration and MinDuration
\* <= AvgDuration <= MaxDuration, whatever the number of successful queries.
C34_DurationsOrdered ==
    BenchReturned =>
        /\ bench.result.MinDuration <= bench.result.P50Duration
        /\ bench.result.P50Duration <= bench.result.P95Duration
        /\ bench.result.P95Duration <= bench.result.P99Duration
        /\ bench.result.P99Duration <= bench.result.MaxDuration
        /\ bench.result.MinDuration <= bench.result.AvgDuration
        /\ bench.result.AvgDuration <= bench.result.MaxDuration

\* The durations of the successful queries in the order of the queries.
RECURSIVE InsertionOrder(_)
InsertionOrder(outs) ==
    IF outs = <<>> THEN <<>>
    ELSE (IF Head(outs)[1] THEN <<>> ELSE <<Head(outs)[2]>>)
            \o InsertionOrder(Tail(outs))

\* C35: calculatePercentile leaves the caller's sample as it was: after the
\* three percentile computations of benchmarkStrategy the sample still holds
\* the durations of the successful queries in insertion order.
C35_SampleKeepsInsertionOrder ==
    BenchReturned => bench.durations = InsertionOrder(bench.outcomes)

C35_Witness ==
    /\ BenchReturned
    /\ Len(bench.durations) >= 3
    /\ bench.durations[1] > bench.durations[2]
    /\ bench.result.P50Duration < bench.result.P99Duration
    /\ bench.durations = InsertionOrder(bench.outcomes)

\* ==================================================== handler.DBHandler.CreateMail
\* The mails and threads collections before the call: one mail that user 1
\* has sent, in a thread of its own.
StoredMails == { [ID |-> 0, UserID |-> 1, Type |-> 1, ThreadID |-> 0] }

StoredThreads == { [UserID |-> 1, ThreadID |-> 0, total_mails |-> 1] }

\* The requests: a sender, at most one recipient in each of To, Cc and Bcc,
\* and a ReplyTo that is empty, the ID of the stored mail, or an ID that is
\* malformed or names no mail.
MailRequests ==
    [From : 1..MaxUsers,
     To : { <<>> } \cup { <<u>> : u \in 1..MaxUsers },
     Cc : { <<>> } \cup { <<u>> : u \in 1..MaxUsers },
     Bcc : { <<>> } \cup { <<u>> : u \in 1..MaxUsers },
     ReplyTo : {"", "stored", "unknown"}]

\* allRecipients := To ++ Cc ++ Bcc
allRecipients(req) == req.To \o req.Cc \o req.Bcc

InitCreateMail ==
    /\ dbh \in { [pc |-> "start", req |-> r, threadID |-> -1, i |-> 1,
                   mails |-> StoredMails, threads |-> StoredThreads,
                   err |-> "none"] : r \in MailRequests }
    /\ sel = Idle
    /\ gen = Idle
    /\ pct = Idle
    /\ bench = Idle
    /\ suite = Idle
    /\ mon = Idle
    /\ EngineOff

\* return err
ReturnError(h) == [h EXCEPT !.pc = "returned", !.err = "error"]

\* primitive.NewObjectID(): an ID no mail and no thread has yet.
NewObjectID(h) == Cardinality(h.mails)

\* mailCollection.InsertOne of a mail of the given type for the user.
InsertOne(h, user, type) ==
    h.mails \cup { [ID |-> NewObjectID(h), UserID |-> user, Type |-> type,
                    ThreadID |-> h.threadID] }

\* updateThread: UpdateOne with upsert on (user_id, thread_id), $push of the
\* mail and $inc of total_mails.
updateThread(h, user) ==
    IF \E t \in h.threads : t.UserID = user /\ t.ThreadID = h.threadID
    THEN { IF t.UserID = user /\ t.ThreadID = h.threadID
           THEN [t EXCEPT !.total_mails = @ + 1] ELSE t : t \in h.threads }
    ELSE h.threads \cup { [UserID |-> user, ThreadID |-> h.threadID,
                           total_mails |-> 1] }

\* "Determine thread ID": a new thread, or the thread of the mail replied
\* to; ObjectIDFromHex or FindOne may return an error.
determineThread ==
    /\ dbh.pc = "start"
    /\ \/ /\ dbh.req.ReplyTo = ""
          /\ dbh' = [dbh EXCEPT !.pc = "insertSender",
                                !.threadID = NewObjectID(dbh)]
       \/ /\ dbh.req.ReplyTo = "stored"
          /\ \E found \in dbh.mails :
                dbh' = [dbh EXCEPT !.pc = "insertSender",
                                   !.threadID = found.ThreadID]
       \/ /\ dbh.req.ReplyTo # ""
          /\ dbh' = ReturnError(dbh)
    /\ UNCHANGED <<engineVars, sel, gen, pct, bench, suite, mon>>

\* "Insert sender's mail"
insertSenderMail ==
    /\ dbh.pc = "insertSender"
    /\ \/ dbh' = ReturnError(dbh)
       \/ dbh' = [dbh EXCEPT !.pc = "senderThread",
                             !.mails = InsertOne(dbh, dbh.req.From, 1)]
    /\ UNCHANGED <<engineVars, sel, gen, pct, bench, suite, mon>>

\* "Update sender's thread"
updateSenderThread ==
    /\ dbh.pc = "senderThread"
    /\ \/ dbh' = ReturnError(dbh)
       \/ dbh' = [dbh EXCEPT !.pc = "recipients",
                             !.threads = updateThread(dbh, dbh.req.From)]
    /\ UNCHANGED <<engineVars, sel, gen, pct, bench, suite, mon>>

\* if recipientID == req.From { continue }
skipSender ==
    /\ dbh.pc = "recipients"
    /\ dbh.i <= Len(allRecipients(dbh.req))
    /\ allRecipients(dbh.req)[dbh.i] = dbh.req.From
    /\ dbh' = [dbh EXCEPT !.i = @ + 1]
    /\ UNCHANGED <<engineVars, sel, gen, pct, bench, suite, mon>>

\* mailCollection.InsertOne(ctx, recipientMail)
insertRecipientMail ==
    /\ dbh.pc = "recipients"
    /\ dbh.i <= Len(allRecipients(dbh.req))
    /\ allRecipients(dbh.req)[dbh.i] # dbh.req.From
    /\ \/ dbh' = ReturnError(dbh)
       \/ dbh' = [dbh EXCEPT
                    !.pc = "recipientThread",
                    !.mails = InsertOne(dbh, allRecipients(dbh.req)[dbh.i], 0)]
    /\ UNCHANGED <<engineVars, sel, gen, pct, bench, suite, mon>>

\* "Update recipient's thread"
updateRecipientThread ==
    /\ dbh.pc = "recipientThread"
    /\ \/ dbh' = ReturnError(dbh)
       \/ dbh' = [dbh EXCEPT
                    !.pc = "recipients",
                    !.i = @ + 1,
                    !.threads =
                       updateThread(dbh, allRecipients(dbh.req)[dbh.i])]
    /\ UNCHANGED <<engineVars, sel, gen, pct, bench, suite, mon>>

\* return nil
createMailReturn ==
    /\ dbh.pc = "recipients"
    /\ dbh.i > Len(allRecipients(dbh.req))
    /\ dbh' = [dbh EXCEPT !.pc = "returned", !.err = "nil"]
    /\ UNCHANGED <<engineVars, sel, gen, pct, bench, suite, mon>>

NextCreateMail ==
    \/ determineThread
    \/ insertSenderMail
    \/ updateSenderThread
    \/ skipSender
    \/ insertRecipientMail
    \/ updateRecipientThread
    \/ createMailReturn

CreateMailSpec == InitCreateMail /\ [][NextCreateMail]_vars

\* C36: whenever CreateMail returns an error, the mails and threads
\* collections are the same as before the call.
C36_ErrorLeavesCollections ==
    (dbh.pc = "returned" /\ dbh.err = "error") =>
        /\ dbh.mails = StoredMails
        /\ dbh.threads = StoredThreads

\* C37: the snapshot slices are never accessed by two threads at once: while
\* periodicCollection is between the read and the write of its append to a
\* slice, StopMonitoring is not appending to that slice and generateReport
\* is not reading it.
C37_NoConcurrentAppend ==
    (mon.pc # "idle" /\ mon.collector = "append") =>
        /\ ~(mon.pc = "append" /\ mon.slice = mon.collectorSlice)
        /\ mon.pc # "generateReport"

\* The place of a strategy in sb.strategies.
Position(name) == CHOOSE k \in 1..Len(Strategies) : Strategies[k] = name

\* C31: the benchmark is sequential: SearchMails of a strategy is called
\* only after SetupDatabase of that strategy has returned without error,
\* and SetupDatabase of a strategy is called only when every strategy before
\* it has either failed its setup or finished all its iterations, after
\* which no call is made on those any more.
C31_StrictlySequential ==
    suite.pc # "idle" =>
        \A i \in 1..Len(suite.calls) :
           LET name == suite.calls[i][2]
           IN IF suite.calls[i][1] = "SearchMails"
              THEN /\ name \notin suite.setupFailed
                   /\ \E j \in 1..(i - 1) :
                         suite.calls[j] = <<"SetupDatabase", name>>
              ELSE /\ \A j \in 1..(i - 1) :
                         Position(suite.calls[j][2]) < Position(name)
                   /\ \A j \in (i + 1)..Len(suite.calls) :
                         Position(suite.calls[j][2]) >= Position(name)
                   /\ \A k \in 1..(Position(name) - 1) :
                         \/ Strategies[k] \in suite.setupFailed
                         \/ Cardinality({ j \in 1..i :
                               suite.calls[j] =
                                  <<"SearchMails", Strategies[k]>> })
                               = suite.iterations

C31_Witness ==
    /\ suite.pc = "returned"
    /\ suite.iterations >= 2
    /\ suite.setupFailed = {Strategies[1]}
    /\ Len(suite.calls) =
          Len(Strategies) + (Len(Strategies) - 1) * suite.iterations
    /\ suite.calls[1] = <<"SetupDatabase", Strategies[1]>>
    /\ suite.calls[2] = <<"SetupDatabase", Strategies[2]>>
    /\ suite.calls[3] = <<"SearchMails", Strategies[2]>>

====
